---- MODULE Spec2Model ----
(***************************************************************************)
(* Verification model of two components of the native columnar bridge:     *)
(*   - ShuffleReader::read(), which re-batches decoded blocks into chunks   *)
(*     without merging blocks of different (is_overflows, bucket_num);      *)
(*   - OptimizedArrowColumnToCHColumn::arrowColumnsToCHChunk(), which       *)
(*     resolves every header column against the external columns.          *)
(***************************************************************************)
EXTENDS Integers, Sequences, FiniteSets, TLC

(* ---------------------------------------------------------------------- *)
(* Bounds of the model                                                     *)
(* ---------------------------------------------------------------------- *)

\* longest decoder stream (number of outcomes before the decoder is exhausted)
MaxLen == 3

\* largest number of columns of a target header
MaxCols == 2

\* largest number of chunks of an arrow column
MaxChunks == 2

(* ---------------------------------------------------------------------- *)
(* Shuffle reader: data                                                    *)
(* ---------------------------------------------------------------------- *)

\* DB::BlockInfo of a default-constructed Block
DefaultInfo == [is_overflows |-> FALSE, bucket_num |-> -1]

\* DB::Block{}: no columns, no rows. id 0 is carried by no decoded block.
EmptyBlock == [rows |-> 0, bytes |-> 0, columns |-> 0, info |-> DefaultInfo, id |-> 0]

\* identities a decoded block can carry
BlockInfos ==
    {[is_overflows |-> FALSE, bucket_num |-> 0],
     [is_overflows |-> FALSE, bucket_num |-> 1],
     [is_overflows |-> TRUE, bucket_num |-> 0]}

\* (rows, bytes) of the non-empty decoded blocks of the model
BlockSizes == {<<5, 10>>, <<3, 30>>}

\* the layout of a decoded block, as its number of columns. Blocks that are
\* merged go through concatenateBlocks and have one layout, so the layouts of
\* the model differ between identities only
LayoutOf(info) == IF info.bucket_num = 1 THEN 2 ELSE 1

\* blocks the decoder can yield; id is filled in from the position in the stream
DecodedBlocks ==
    {[rows |-> sz[1], bytes |-> sz[2], columns |-> LayoutOf(inf), info |-> inf, id |-> 0] :
        sz \in BlockSizes, inf \in BlockInfos}
    \cup {[rows |-> 0, bytes |-> 0, columns |-> 1, info |-> DefaultInfo, id |-> 0]}

\* one call of input_stream->read(): a block, or an exception
DecoderOutcomes ==
    {[throws |-> FALSE, block |-> b] : b \in DecodedBlocks}
    \cup {[throws |-> TRUE, block |-> EmptyBlock]}

\* settings of max_shuffle_read_rows / max_shuffle_read_bytes (negative: disabled)
RowThresholds == {-1, 0, 8, 100}
ByteThresholds == {-1, 0, 25}

VARIABLES
    input_stream,           \* outcomes the decoder will still produce, in order
    pending_block,          \* ShuffleReader::pending_block
    max_shuffle_read_rows,
    max_shuffle_read_bytes,
    current_block,          \* the chunk set by setCurrentBlock, returned by read()
    header,                 \* number of columns of the declared layout, 0: unset
    last,                   \* what the last read() call did (history)
    origin,                 \* the decoder's whole stream as it was at construction (history)
    returned                \* the chunks returned so far, in order (history)

readerVars == <<input_stream, pending_block, max_shuffle_read_rows,
                max_shuffle_read_bytes, current_block, header, last, origin, returned>>

VARIABLES
    session_header,         \* OptimizedArrowColumnToCHColumn::header: the target columns
    import_nested,
    allow_missing_columns,
    dictionary_values,      \* the session's dictionary cache, keyed by column name
    res,                    \* the output chunk of arrowColumnsToCHChunk
    conv_last               \* what the last conversion call did (history)

convVars == <<session_header, import_nested, allow_missing_columns,
              dictionary_values, res, conv_last>>

VARIABLES
    chunked_array,          \* the chunked arrow column handed to the column converter
    ch_column               \* what readColumnFromArrowColumn made of it

columnVars == <<chunked_array, ch_column>>

VARIABLES
    schema,                 \* the arrow schema handed to the dry-run functions
    block_from_arrow,       \* what the last arrowSchemaToCHHeader call made of it
    missing_columns         \* what the last getMissingColumns call made of it

schemaVars == <<schema, block_from_arrow, missing_columns>>

VARIABLES
    pc,                     \* where a read() call stands, statement by statement
    loop_blocks,            \* the local vector blocks of read()
    endless                 \* the decoder never reports end-of-stream

loopVars == <<pc, loop_blocks, endless>>

vars == <<readerVars, convVars, columnVars, schemaVars, loopVars>>

(* ---------------------------------------------------------------------- *)
(* Shuffle reader: helpers                                                 *)
(* ---------------------------------------------------------------------- *)

\* Block::operator bool
BlockBool(b) == b.columns # 0

\* input_stream->read(): the next outcome; an exhausted stream yields empty blocks
DecoderRead(strm) ==
    IF strm = <<>> THEN [throws |-> FALSE, block |-> EmptyBlock] ELSE Head(strm)

\* variant: a read takes two blocks off the stream
DecoderAdvanceSkips(strm) == IF Len(strm) > 1 THEN Tail(Tail(strm)) ELSE <<>>

\* the decoder's stream after one read
DecoderAdvance(strm) == IF strm = <<>> THEN strm ELSE Tail(strm)

\* variant: the row and byte comparisons are inclusive
LoopConditionInclusive(buffer_rows, buffer_bytes) ==
    \/ buffer_rows = 0
    \/ /\ (max_shuffle_read_rows < 0 \/ buffer_rows <= max_shuffle_read_rows)
       /\ (max_shuffle_read_bytes < 0 \/ buffer_bytes <= max_shuffle_read_bytes)

\* variant: a disabled threshold counts as reached
LoopConditionDisabledStops(buffer_rows, buffer_bytes) ==
    \/ buffer_rows = 0
    \/ /\ (max_shuffle_read_rows >= 0 /\ buffer_rows < max_shuffle_read_rows)
       /\ (max_shuffle_read_bytes >= 0 /\ buffer_bytes < max_shuffle_read_bytes)

\* variant: the loop goes on while either threshold is not reached
LoopConditionEither(buffer_rows, buffer_bytes) ==
    \/ buffer_rows = 0
    \/ (max_shuffle_read_rows < 0 \/ buffer_rows < max_shuffle_read_rows)
    \/ (max_shuffle_read_bytes < 0 \/ buffer_bytes < max_shuffle_read_bytes)

\* variant: only the row threshold is tested
LoopConditionRowsOnly(buffer_rows, buffer_bytes) ==
    \/ buffer_rows = 0
    \/ (max_shuffle_read_rows < 0 \/ buffer_rows < max_shuffle_read_rows)

\* condition of the while loop
LoopCondition(buffer_rows, buffer_bytes) ==
    \/ buffer_rows = 0
    \/ /\ (max_shuffle_read_rows < 0 \/ buffer_rows < max_shuffle_read_rows)
       /\ (max_shuffle_read_bytes < 0 \/ buffer_bytes < max_shuffle_read_bytes)

\* variant: only the bucket number is compared
IdentityDiffersBucketOnly(first, block) ==
    first.info.bucket_num # block.info.bucket_num

\* variant: only the overflow flag is compared
IdentityDiffersOverflowOnly(first, block) ==
    first.info.is_overflows # block.info.is_overflows

\* the boundary test between the first accumulated block and a new block
IdentityDiffers(first, block) ==
    \/ first.info.is_overflows # block.info.is_overflows
    \/ first.info.bucket_num # block.info.bucket_num

RECURSIVE SumRows(_)
SumRows(blocks) == IF blocks = <<>> THEN 0 ELSE Head(blocks).rows + SumRows(Tail(blocks))

RECURSIVE SumBytes(_)
SumBytes(blocks) == IF blocks = <<>> THEN 0 ELSE Head(blocks).bytes + SumBytes(Tail(blocks))

\* a default-constructed DB::Block as a chunk: no rows, no columns
NoChunk == [rows |-> 0, bytes |-> 0, columns |-> 0, info |-> DefaultInfo, parts |-> <<>>]

\* variant: with nothing accumulated the previous chunk is handed out again
FinalBlockStale(blocks) ==
    IF blocks # <<>>
    THEN [rows |-> SumRows(blocks), bytes |-> SumBytes(blocks),
          columns |-> blocks[1].columns, info |-> blocks[1].info, parts |-> blocks]
    ELSE current_block

\* DB::concatenateBlocks followed by final_block.info = blocks[0].info;
\* parts records which input blocks the rows of the chunk come from
FinalBlock(blocks) ==
    IF blocks # <<>>
    THEN [rows |-> SumRows(blocks), bytes |-> SumBytes(blocks),
          columns |-> blocks[1].columns, info |-> blocks[1].info, parts |-> blocks]
    ELSE NoChunk

\* the while loop of read(): returns the accumulated blocks, the new pending
\* block, the rest of the stream, the outcomes read and whether the decoder threw
RECURSIVE ReadLoop(_, _, _, _, _)
ReadLoop(blocks, buffer_rows, buffer_bytes, strm, got) ==
    IF ~LoopCondition(buffer_rows, buffer_bytes)
    THEN [blocks |-> blocks, pending |-> EmptyBlock, strm |-> strm, got |-> got,
          threw |-> FALSE]
    ELSE LET o == DecoderRead(strm)
             rest == DecoderAdvance(strm)
             got2 == Append(got, o)
             block == o.block
         IN  IF o.throws
             THEN [blocks |-> blocks, pending |-> EmptyBlock, strm |-> rest,
                   got |-> got2, threw |-> TRUE]
             ELSE IF block.rows = 0
             THEN [blocks |-> blocks, pending |-> EmptyBlock, strm |-> rest,
                   got |-> got2, threw |-> FALSE]
             ELSE IF blocks # <<>> /\ IdentityDiffers(blocks[1], block)
             THEN [blocks |-> blocks, pending |-> block, strm |-> rest,
                   got |-> got2, threw |-> FALSE]
             ELSE ReadLoop(Append(blocks, block), buffer_rows + block.rows,
                           buffer_bytes + block.bytes, rest, got2)

\* variant: the pending block is not moved into the blocks vector
SeedBlocksDropsPending(pending) == <<>>

\* the blocks vector after the pending block has been moved into it
SeedBlocks(pending) == IF BlockBool(pending) THEN <<pending>> ELSE <<>>

(* ---------------------------------------------------------------------- *)
(* Shuffle reader: state machine                                           *)
(* ---------------------------------------------------------------------- *)

\* all streams of at most MaxLen outcomes, block ids numbered from 1 in decode order
Streams ==
    UNION {{[i \in 1..n |-> [throws |-> s[i].throws,
                             block |-> IF s[i].throws THEN EmptyBlock
                                       ELSE [s[i].block EXCEPT !.id = i]]] :
               s \in [1..n -> DecoderOutcomes]} : n \in 0..MaxLen}

\* the history of returned chunks; a run of empty chunks is recorded once
Record(hist, chunk) ==
    IF chunk.rows = 0 /\ hist # <<>> /\ hist[Len(hist)].rows = 0
    THEN hist ELSE Append(hist, chunk)

NoCall == [called |-> FALSE, seeded |-> EmptyBlock, got |-> <<>>, threw |-> FALSE,
           eos |-> FALSE, after_eos |-> FALSE]

ReaderInit ==
    /\ input_stream \in Streams
    /\ pending_block = EmptyBlock
    /\ max_shuffle_read_rows \in RowThresholds
    /\ max_shuffle_read_bytes \in ByteThresholds
    /\ current_block = NoChunk
    /\ header = 0
    /\ last = NoCall
    /\ origin = input_stream
    /\ returned = <<>>

\* variant: the declared layout follows every returned chunk
AdoptHeaderAlways(declared, final_block) == final_block.columns

\* if (unlikely(header.columns() == 0)) header = currentBlock().cloneEmpty()
AdoptHeader(declared, final_block) ==
    IF declared = 0 THEN final_block.columns ELSE declared

\* ShuffleReader::read() when no exception escapes
ReadReturns ==
    LET seed == SeedBlocks(pending_block)
        r == ReadLoop(seed, SumRows(seed), SumBytes(seed), input_stream, <<>>)
        final_block == FinalBlock(r.blocks)
    IN  /\ ~r.threw
        /\ input_stream' = r.strm
        /\ pending_block' = r.pending
        /\ current_block' = final_block
        /\ header' = AdoptHeader(header, final_block)
        /\ last' = [called |-> TRUE, seeded |-> pending_block, got |-> r.got,
                    threw |-> FALSE,
                    eos |-> r.got # <<>> /\ r.got[Len(r.got)].block.rows = 0,
                    after_eos |-> last.called /\ ~last.threw /\ last.eos]
        /\ returned' = Record(returned, final_block)
        /\ UNCHANGED <<max_shuffle_read_rows, max_shuffle_read_bytes, origin>>
        /\ UNCHANGED <<convVars, columnVars, schemaVars, loopVars>>

\* ShuffleReader::read() when input_stream->read() throws: the locals are
\* destroyed, the pending slot has already been cleared
ReadThrows ==
    LET seed == SeedBlocks(pending_block)
        r == ReadLoop(seed, SumRows(seed), SumBytes(seed), input_stream, <<>>)
    IN  /\ r.threw
        /\ input_stream' = r.strm
        /\ pending_block' = EmptyBlock
        /\ last' = [called |-> TRUE, seeded |-> pending_block, got |-> r.got,
                    threw |-> TRUE, eos |-> FALSE,
                    after_eos |-> last.called /\ ~last.threw /\ last.eos]
        /\ UNCHANGED <<max_shuffle_read_rows, max_shuffle_read_bytes,
                       current_block, header, origin, returned>>
        /\ UNCHANGED <<convVars, columnVars, schemaVars, loopVars>>

(* ---------------------------------------------------------------------- *)
(* Conversion session: data                                                *)
(* ---------------------------------------------------------------------- *)

\* internal (ClickHouse) types; a name is a sequence of dot-separated components
ScalarType(kind) == [kind |-> kind, elems |-> <<>>]
WrappedType(kind, nested) == [kind |-> kind, elems |-> <<[name |-> <<>>, type |-> nested]>>]

\* external (Arrow) types
ArrowScalar(id) == [id |-> id, children |-> <<>>, index |-> "NA"]
ArrowField(name, type, nullable) == [name |-> name, type |-> type, nullable |-> nullable]
ArrowStruct(fields) == [id |-> "STRUCT", children |-> fields, index |-> "NA"]
\* arrow::field("dict", value_type) is nullable by default
ArrowDictionary(value_id, index_id) ==
    [id |-> "DICTIONARY",
     children |-> <<ArrowField(<<"dict">>, ArrowScalar(value_id), TRUE)>>,
     index |-> index_id]

\* index types accepted by readColumnWithIndexesData
IndexTypes == {"UINT8", "INT8", "UINT16", "INT16", "UINT32", "INT32", "UINT64", "INT64"}

\* an external column: its schema field, and the identity of its dictionary payload
ExternalColumn(field, dict_id) == [field |-> field, dict_id |-> dict_id]

\* the external columns a table of the model can carry under each name
ColumnsNamedTX ==
    {ExternalColumn(ArrowField(<<"t", "x">>, ArrowScalar("STRING"), TRUE), 0)}

ColumnsNamedT ==
    {ExternalColumn(ArrowField(<<"t">>,
        ArrowStruct(<<ArrowField(<<"x">>, ArrowScalar("UINT16"), FALSE),
                      ArrowField(<<"y">>, ArrowScalar("STRING"), FALSE)>>), FALSE), 0),
     ExternalColumn(ArrowField(<<"t">>,
        ArrowStruct(<<ArrowField(<<"y">>, ArrowScalar("STRING"), FALSE)>>), FALSE), 0)}

ColumnsNamedD ==
    {ExternalColumn(ArrowField(<<"d">>, ArrowDictionary("STRING", "INT8"), FALSE), 1),
     ExternalColumn(ArrowField(<<"d">>, ArrowDictionary("STRING", "INT8"), FALSE), 2),
     ExternalColumn(ArrowField(<<"d">>, ArrowDictionary("STRING", "FLOAT"), FALSE), 1),
     ExternalColumn(ArrowField(<<"d">>, ArrowDictionary("LARGE_STRING", "INT8"), FALSE), 1),
     ExternalColumn(ArrowField(<<"d">>, ArrowDictionary("STRING", "INT8"), FALSE), 3)}

ColumnsNamed(name) ==
    IF name = <<"t", "x">> THEN ColumnsNamedTX
    ELSE IF name = <<"t">> THEN ColumnsNamedT
    ELSE ColumnsNamedD

ExternalNames == {<<"t", "x">>, <<"t">>, <<"d">>}

\* name_to_column_ptr: every map from a set of names to a column of that name
NameToColumnPtrs ==
    UNION {{m \in [names -> UNION {ColumnsNamed(n) : n \in names}] :
               \A n \in names : m[n] \in ColumnsNamed(n)} : names \in SUBSET ExternalNames}

\* row counts of an external table (all its columns have the same length)
TableLengths == {2}

\* the columns a target header can ask for
HeaderColumns ==
    <<[name |-> <<"t", "x">>, type |-> ScalarType("Date")],
      [name |-> <<"d">>, type |-> ScalarType("String")],
      [name |-> <<"a">>, type |-> ScalarType("String")]>>

\* headers: at most MaxCols of these columns, in this order
Headers ==
    UNION {{[i \in 1..n |-> HeaderColumns[at[i]]] :
               at \in {f \in [1..n -> 1..Len(HeaderColumns)] :
                          \A i, j \in 1..n : i < j => f[i] < f[j]}} : n \in 1..MaxCols}

\* an entry of the dictionary cache that dictionary_values[name] has created
\* but that holds no dictionary; builds counts the completed materializations, failed remembers a build
\* that threw (both history)
NullEntry == [built |-> FALSE, type |-> ScalarType("Nothing"), payload |-> 0,
              builds |-> 0, failed |-> FALSE]

EmptyChunk == [columns |-> <<>>, num_rows |-> 0]

NoColumn == [name |-> <<>>, type |-> ScalarType("Nothing"), rows |-> 0, dict |-> 0,
             route |-> "none", from |-> ScalarType("Nothing"), tried |-> FALSE, brought |-> 0]

(* ---------------------------------------------------------------------- *)
(* Conversion session: the column converter                                *)
(* ---------------------------------------------------------------------- *)

Converted(name, type, rows, dict, dv) ==
    [ok |-> TRUE, error |-> "", dv |-> dv,
     column |-> [name |-> name, type |-> type, rows |-> rows, dict |-> dict,
                 route |-> "exact", from |-> type, tried |-> FALSE, brought |-> 0]]

\* the dictionary array that the arrow column of a converted column carried
\* (history; dict is the one its indexes are read against)
Brought(r, dict_id) == [r EXCEPT !.column.brought = dict_id]

Failed(error, dv) == [ok |-> FALSE, error |-> error, dv |-> dv, column |-> NoColumn]

\* dictionary_values[column_name]: creates a null entry when the name is new
DictEntry(dv, name) == IF name \in DOMAIN dv THEN dv[name] ELSE NullEntry

DictTouch(dv, name) ==
    IF name \in DOMAIN dv THEN dv
    ELSE [k \in DOMAIN dv \cup {name} |-> IF k = name THEN NullEntry ELSE dv[k]]

DictStore(dv, name, entry) ==
    [k \in DOMAIN dv \cup {name} |-> IF k = name THEN entry ELSE dv[k]]

\* whether uniqueInsertRangeFrom throws is decided by the dictionary's values:
\* the dictionary array numbered 3 is one it rejects
UniqueRaises(dict_id) == dict_id = 3

\* variant: the cache is never found filled
MaterializedNever(dv, name) == FALSE

\* if (!dict_values): the name has a dictionary in the cache
Materialized(dv, name) == DictEntry(dv, name).built

\* variant: the cache entry is assigned before the dictionary is complete
BuildFailedKeepsPartial(dv, name) ==
    DictStore(dv, name, [DictEntry(dv, name) EXCEPT !.built = TRUE, !.failed = TRUE])

\* an exception before the assignment to dict_values: the entry stays null
BuildFailed(dv, name) ==
    DictStore(dv, name, [DictEntry(dv, name) EXCEPT !.failed = TRUE])

\* dict_values = std::make_shared<ColumnWithTypeAndName>(std::move(dict_column))
BuildStored(dv, name, type, dict_id) ==
    DictStore(dv, name, [built |-> TRUE, type |-> type, payload |-> dict_id,
                         builds |-> IF DictEntry(dv, name).builds < 2
                                    THEN DictEntry(dv, name).builds + 1 ELSE 2,
                         failed |-> DictEntry(dv, name).failed])

RECURSIVE readColumnFromArrowColumn(_, _, _, _, _)
RECURSIVE ReadStructFields(_, _, _, _, _, _, _)

\* the STRUCT case: every child field is converted in turn
ReadStructFields(fields, i, elems, rows, dict_id, dv, read_ints_as_dates) ==
    IF i > Len(fields)
    THEN [ok |-> TRUE, error |-> "", dv |-> dv, elems |-> elems]
    ELSE LET element == readColumnFromArrowColumn(fields[i], rows, dict_id, dv,
                                                  read_ints_as_dates)
         IN  IF ~element.ok
             THEN [ok |-> FALSE, error |-> element.error, dv |-> element.dv, elems |-> elems]
             ELSE ReadStructFields(fields, i + 1,
                      Append(elems, [name |-> element.column.name,
                                     type |-> element.column.type]),
                      rows, dict_id, element.dv, read_ints_as_dates)

\* readColumnFromArrowColumn: the converted column, or the error, and the
\* dictionary cache as the call leaves it
readColumnFromArrowColumn(arrow_field, rows, dict_id, dv, read_ints_as_dates) ==
    LET column_name == arrow_field.name
        id == arrow_field.type.id
    IN  IF arrow_field.nullable
        THEN LET nested_column ==
                     readColumnFromArrowColumn([arrow_field EXCEPT !.nullable = FALSE],
                                               rows, dict_id, dv, read_ints_as_dates)
             IN  IF ~nested_column.ok THEN nested_column
                 ELSE Converted(column_name,
                                WrappedType("Nullable", nested_column.column.type),
                                rows, nested_column.column.dict, nested_column.dv)
        ELSE IF id \in {"STRING", "BINARY"}
        THEN Converted(column_name, ScalarType("String"), rows, 0, dv)
        ELSE IF id = "UINT16"
        THEN Converted(column_name,
                       IF read_ints_as_dates THEN ScalarType("Date")
                       ELSE ScalarType("UInt16"), rows, 0, dv)
        ELSE IF id = "INT32"
        THEN Converted(column_name, ScalarType("Int32"), rows, 0, dv)
        ELSE IF id = "STRUCT"
        THEN LET r == ReadStructFields(arrow_field.type.children, 1, <<>>, rows,
                                       dict_id, dv, read_ints_as_dates)
             IN  IF ~r.ok THEN Failed(r.error, r.dv)
                 ELSE Converted(column_name, [kind |-> "Tuple", elems |-> r.elems],
                                rows, 0, r.dv)
        ELSE IF id = "DICTIONARY"
        THEN LET touched == DictTouch(dv, column_name)
                 dict_column ==
                     readColumnFromArrowColumn(arrow_field.type.children[1], rows,
                                               dict_id, touched, read_ints_as_dates)
                 built ==
                     IF Materialized(dv, column_name) THEN touched
                     ELSE BuildStored(dict_column.dv, column_name,
                                      dict_column.column.type, dict_id)
             IN  IF ~Materialized(dv, column_name) /\ ~dict_column.ok
                 THEN Failed(dict_column.error, BuildFailed(dict_column.dv, column_name))
                 ELSE IF ~Materialized(dv, column_name) /\ UniqueRaises(dict_id)
                 THEN Failed("uniqueInsertRangeFrom", BuildFailed(dict_column.dv, column_name))
                 ELSE IF arrow_field.type.index \notin IndexTypes
                 THEN Failed("BAD_ARGUMENTS", built)
                 ELSE Brought(Converted(column_name,
                                        WrappedType("LowCardinality",
                                                    built[column_name].type),
                                        rows, built[column_name].payload, built), dict_id)
        ELSE Failed("UNKNOWN_TYPE", dv)

(* ---------------------------------------------------------------------- *)
(* Conversion session: arrowColumnsToCHChunk                               *)
(* ---------------------------------------------------------------------- *)

\* Nested::extractTableName: the part of the name before the first dot
ExtractTableName(name) == IF Len(name) > 1 THEN <<name[1]>> ELSE name

\* NestedColumnExtractHelper::extractColumn on the block holding one converted
\* table column: the leaf named by the rest of the name, if the table has it
ExtractColumn(table_column, name) ==
    LET leaves == {i \in 1..Len(table_column.type.elems) :
                      /\ table_column.type.kind = "Tuple"
                      /\ Len(name) > 1
                      /\ table_column.type.elems[i].name = Tail(name)}
    IN  IF leaves = {} THEN NoColumn
        ELSE LET i == CHOOSE k \in leaves : TRUE
             IN  [name |-> name, type |-> table_column.type.elems[i].type,
                  rows |-> table_column.rows, dict |-> 0, route |-> "nested",
                  from |-> table_column.type.elems[i].type, tried |-> TRUE, brought |-> 0]

\* variant: the column is handed on without the cast
CastColumnSkipped(column, type, raises) ==
    [ok |-> TRUE, error |-> "", column |-> column]

\* castColumn(column, header_column.type) followed by column.type = header_column.type;
\* whether a cast to another type raises is decided by the values, an input of the model
CastColumn(column, type, raises) ==
    IF column.type # type /\ raises
    THEN [ok |-> FALSE, error |-> "CANNOT_CONVERT_TYPE", column |-> NoColumn]
    ELSE [ok |-> TRUE, error |-> "", column |-> [column EXCEPT !.type = type]]

\* variant: the header's own empty column is handed on without being resized
DefaultColumnNotResized(header_column, num_rows) ==
    [name |-> header_column.name, type |-> header_column.type, rows |-> 0,
     dict |-> 0, route |-> "default", from |-> header_column.type, tried |-> FALSE, brought |-> 0]

\* the column synthesized for a header column that the input does not have
DefaultColumn(header_column, num_rows) ==
    [name |-> header_column.name, type |-> header_column.type, rows |-> num_rows,
     dict |-> 0, route |-> "default", from |-> header_column.type, tried |-> FALSE, brought |-> 0]

Resolved(column, dv, nested_tables) ==
    [ok |-> TRUE, error |-> "", column |-> column, dv |-> dv,
     nested_tables |-> nested_tables]

Unresolved(error, dv, nested_tables) ==
    [ok |-> FALSE, error |-> error, column |-> NoColumn, dv |-> dv,
     nested_tables |-> nested_tables]

\* the policy for a header column found by neither route
MissingColumn(header_column, num_rows, dv, nested_tables) ==
    IF ~allow_missing_columns
    THEN Unresolved("THERE_IS_NO_COLUMN", dv, nested_tables)
    ELSE Resolved(DefaultColumn(header_column, num_rows), dv, nested_tables)

\* the cast of a column found by exact name or by nested extraction
Cast(column, header_column, raises, dv, nested_tables) ==
    LET c == CastColumn(column, header_column.type, raises)
    IN  IF c.ok THEN Resolved(c.column, dv, nested_tables)
        ELSE Unresolved(c.error, dv, nested_tables)

\* variant: the nested table is looked up whether or not import_nested is set
TriesNestedAlways(search_nested_table_name, name_to_column_ptr) ==
    search_nested_table_name \in DOMAIN name_to_column_ptr

\* the two tests that guard the nested-table route of a column without exact match
TriesNested(search_nested_table_name, name_to_column_ptr) ==
    import_nested /\ search_nested_table_name \in DOMAIN name_to_column_ptr

\* the nested-table route was taken for the column, whatever came of it (history)
Tried(r) == [r EXCEPT !.column.tried = r.ok]

\* one iteration of the loop over the header columns
ResolveColumn(header_column, name_to_column_ptr, num_rows, dv, nested_tables, raises) ==
    LET search_column_name == header_column.name
        search_nested_table_name == ExtractTableName(header_column.name)
    IN  IF search_column_name \notin DOMAIN name_to_column_ptr
        THEN IF TriesNested(search_nested_table_name, name_to_column_ptr)
             THEN LET arrow_column == name_to_column_ptr[search_nested_table_name]
                      cached == search_nested_table_name \in DOMAIN nested_tables
                      read == IF cached
                              THEN Converted(search_nested_table_name, ScalarType("Nothing"),
                                             0, 0, dv)
                              ELSE readColumnFromArrowColumn(arrow_column.field, num_rows,
                                       arrow_column.dict_id, dv, TRUE)
                      tables == IF cached \/ ~read.ok THEN nested_tables
                                ELSE [k \in DOMAIN nested_tables \cup {search_nested_table_name}
                                        |-> IF k = search_nested_table_name THEN read.column
                                            ELSE nested_tables[k]]
                  IN  IF ~read.ok THEN Unresolved(read.error, read.dv, nested_tables)
                      ELSE LET nested_column ==
                                   ExtractColumn(tables[search_nested_table_name],
                                                 search_column_name)
                           IN  IF nested_column # NoColumn
                               THEN Cast(nested_column, header_column, raises, read.dv, tables)
                               ELSE Tried(MissingColumn(header_column, num_rows, read.dv,
                                                        tables))
             ELSE MissingColumn(header_column, num_rows, dv, nested_tables)
        ELSE LET arrow_column == name_to_column_ptr[search_column_name]
                 column == readColumnFromArrowColumn(arrow_column.field, num_rows,
                               arrow_column.dict_id, dv, TRUE)
             IN  IF ~column.ok THEN Unresolved(column.error, column.dv, nested_tables)
                 ELSE Cast(column.column, header_column, raises, column.dv, nested_tables)

\* the loop over the header columns, from column_i on
RECURSIVE ConvertColumns(_, _, _, _, _, _, _)
ConvertColumns(column_i, columns_list, name_to_column_ptr, num_rows, dv, nested_tables, cast_raises) ==
    IF column_i > Len(session_header)
    THEN [ok |-> TRUE, error |-> "", at |-> 0, columns |-> columns_list, dv |-> dv]
    ELSE LET r == ResolveColumn(session_header[column_i], name_to_column_ptr, num_rows,
                                dv, nested_tables, cast_raises)
         IN  IF ~r.ok
             THEN [ok |-> FALSE, error |-> r.error, at |-> column_i,
                   columns |-> columns_list, dv |-> r.dv]
             ELSE ConvertColumns(column_i + 1, Append(columns_list, r.column),
                                 name_to_column_ptr, num_rows, r.dv, r.nested_tables,
                                 cast_raises)

\* the whole call: the emptiness check, then the loop
Convert(name_to_column_ptr, num_rows, cast_raises) ==
    IF DOMAIN name_to_column_ptr = {}
    THEN [ok |-> FALSE, error |-> "INCORRECT_NUMBER_OF_COLUMNS", at |-> 0,
          columns |-> <<>>, dv |-> dictionary_values]
    ELSE ConvertColumns(1, <<>>, name_to_column_ptr, num_rows, dictionary_values,
                        <<>>, cast_raises)

\* the external columns that no header column is named after or nested in
Unused(name_to_column_ptr) ==
    {n \in DOMAIN name_to_column_ptr :
        \A i \in 1..Len(session_header) :
            session_header[i].name # n /\ ExtractTableName(session_header[i].name) # n}

\* what the supplied columns offer to every header column (history): a column
\* of exactly its name, a column named as its table prefix, and in that one a
\* struct child named as the rest of its name
Offer(name_to_column_ptr) ==
    [i \in 1..Len(session_header) |->
        LET name == session_header[i].name
            prefix == ExtractTableName(name)
            fields == IF prefix \in DOMAIN name_to_column_ptr
                      THEN name_to_column_ptr[prefix].field.type.children ELSE <<>>
        IN  [exact |-> name \in DOMAIN name_to_column_ptr,
             table |-> prefix \in DOMAIN name_to_column_ptr,
             leaf |-> /\ Len(name) > 1
                      /\ prefix \in DOMAIN name_to_column_ptr
                      /\ name_to_column_ptr[prefix].field.type.id = "STRUCT"
                      /\ \E k \in 1..Len(fields) : fields[k].name = Tail(name)]]

\* what is remembered of the last call (history): whether it returned, whether
\* arrowColumnsToCHChunk was entered (ran), the error and the header position
\* it came from, and what the call was given; empty names the entry point
\* that was given no external column at all ("" when there were columns)
NoConversion == [called |-> FALSE, ok |-> FALSE, ran |-> FALSE,
                 error |-> "", at |-> 0, empty |-> "",
                 unused |-> FALSE, offer |-> <<>>]

Outcome(r, ran, entry, name_to_column_ptr) ==
    [called |-> TRUE, ok |-> r.ok, ran |-> ran,
     error |-> r.error, at |-> r.at,
     empty |-> IF DOMAIN name_to_column_ptr = {} THEN entry ELSE "",
     unused |-> Unused(name_to_column_ptr) # {},
     offer |-> Offer(name_to_column_ptr)]

\* variant: the columns converted so far are put into res as they come
SetColumnsPartial(r, num_rows) ==
    [columns |-> r.columns, num_rows |-> num_rows]

\* res.setColumns(columns_list, num_rows), the last statement of the loop's
\* function: it is not reached when a column has thrown
SetColumns(r, num_rows) ==
    IF r.ok THEN [columns |-> r.columns, num_rows |-> num_rows] ELSE res

\* arrow tables: the columns by name, and whether a second column of one of
\* the names is in the table (taken for the tables of one name only)
Tables ==
    {[columns |-> m, duplicated |-> FALSE] : m \in NameToColumnPtrs}
    \cup {[columns |-> m, duplicated |-> TRUE] :
              m \in {k \in NameToColumnPtrs : Cardinality(DOMAIN k) = 1}}

\* variant: the table's columns are handed on even when there are none
CallsConverterAlways(name_to_column_ptr) == TRUE

\* if (!name_to_column_ptr.empty()) in arrowTableToCHChunk
CallsConverter(name_to_column_ptr) == DOMAIN name_to_column_ptr # {}

\* arrowTableToCHChunk up to its call of arrowColumnsToCHChunk: GetColumnByName
\* gives no column for a name that the table has twice
TableColumns(table) ==
    IF table.duplicated
    THEN [ok |-> FALSE, error |-> "DUPLICATE_COLUMN", at |-> 0, columns |-> <<>>,
          dv |-> dictionary_values]
    ELSE [ok |-> TRUE, error |-> "", at |-> 0, columns |-> <<>>,
          dv |-> dictionary_values]

ConvInit ==
    /\ session_header \in Headers
    /\ import_nested \in BOOLEAN
    /\ allow_missing_columns \in BOOLEAN
    /\ dictionary_values = <<>>
    /\ res = EmptyChunk
    /\ conv_last = NoConversion

\* arrowColumnsToCHChunk. When it returns, res.setColumns(columns_list, num_rows)
\* has run; when it throws, res is not touched and the dictionary cache keeps
\* what the columns converted before the error have put into it
ArrowColumnsToCHChunk ==
    \E name_to_column_ptr \in NameToColumnPtrs, num_rows \in TableLengths,
       cast_raises \in BOOLEAN :
        \E r \in {Convert(name_to_column_ptr, num_rows, cast_raises)} :
            /\ res' = SetColumns(r, num_rows)
            /\ dictionary_values' = r.dv
            /\ conv_last' = Outcome(r, TRUE, "columns", name_to_column_ptr)
            /\ UNCHANGED <<session_header, import_nested, allow_missing_columns>>
            /\ UNCHANGED <<readerVars, columnVars, schemaVars, loopVars>>

\* arrowTableToCHChunk: the name map is built from the table's columns; a
\* table without columns is not handed to arrowColumnsToCHChunk at all
ArrowTableToCHChunk ==
    \E table \in Tables, num_rows \in TableLengths, cast_raises \in BOOLEAN :
        LET name_to_column_ptr == table.columns
            calls == ~table.duplicated /\ CallsConverter(name_to_column_ptr)
        IN  \E r \in {IF calls THEN Convert(name_to_column_ptr, num_rows, cast_raises)
                       ELSE TableColumns(table)} :
                /\ res' = IF calls THEN SetColumns(r, num_rows) ELSE res
                /\ dictionary_values' = r.dv
                /\ conv_last' = Outcome(r, calls, "table", name_to_column_ptr)
                /\ UNCHANGED <<session_header, import_nested, allow_missing_columns>>
                /\ UNCHANGED <<readerVars, columnVars, schemaVars, loopVars>>

(* ---------------------------------------------------------------------- *)
(* Column converter: one chunked arrow column, with its values             *)
(* ---------------------------------------------------------------------- *)

\* DATE_LUT_MAX_EXTEND_DAY_NUM is defined outside these sources; nothing below
\* depends on the number taken for it
DATE_LUT_MAX_EXTEND_DAY_NUM == 105505

\* DecimalUtils::max_precision<Decimal32 | Decimal64 | Decimal128 | Decimal256>
max_precision(width) ==
    CASE width = 32 -> 9
      [] width = 64 -> 18
      [] width = 128 -> 38
      [] width = 256 -> 76

DecimalWidths == {32, 64, 128, 256}

ArrowDecimal(id, precision) ==
    [id |-> id, children |-> <<>>, index |-> "NA", precision |-> precision]

\* a list of int32 items, or a map whose entries are structs of key and value
ArrowList(id) ==
    [id |-> id,
     children |-> IF id = "LIST"
                  THEN <<ArrowField(<<"item">>, ArrowScalar("INT32"), FALSE)>>
                  ELSE <<ArrowField(<<"entries">>,
                             ArrowStruct(<<ArrowField(<<"key">>, ArrowScalar("STRING"), FALSE),
                                           ArrowField(<<"value">>, ArrowScalar("INT32"), FALSE)>>),
                             FALSE)>>,
     index |-> "NA"]

\* an array of an arrow column: its values (for a list or a map, the values of
\* its child array) and, for a list or a map, its offsets array. Arrays start
\* at position 0 of their buffers, as the readers of raw buffers take them to
ArrowArray(values, offsets) == [values |-> values, offsets |-> offsets]

ListIds == {"LIST", "MAP"}

ArrayLength(type, chunk) ==
    IF type.id \in ListIds THEN Len(chunk.offsets) - 1 ELSE Len(chunk.values)

\* arrow_column->length()
RECURSIVE ChunkedLength(_, _)
ChunkedLength(type, chunks) ==
    IF chunks = <<>> THEN 0
    ELSE ArrayLength(type, Head(chunks)) + ChunkedLength(type, Tail(chunks))

\* day numbers of a Date32 array: below, at and beyond the largest day number
DayValues == {-1, DATE_LUT_MAX_EXTEND_DAY_NUM, DATE_LUT_MAX_EXTEND_DAY_NUM + 1}

\* a signed 64-bit value: its sign and its magnitude in four 16-bit limbs,
\* most significant first
Int64(negative, limbs) == [negative |-> negative, limbs |-> limbs]

\* millisecond values of a Date64 array: 1500, -1500, 4294967295999 (the last
\* one whose seconds fit 32 bits), 4294967296000 and -2^63
MilliValues ==
    {Int64(FALSE, <<0, 0, 0, 1500>>),
     Int64(TRUE, <<0, 0, 0, 1500>>),
     Int64(FALSE, <<0, 999, 65535, 65535>>),
     Int64(FALSE, <<0, 1000, 0, 0>>),
     Int64(TRUE, <<32768, 0, 0, 0>>)}

\* arrays of at most two values
ArraysOf(values) ==
    {ArrowArray(v, <<>>) : v \in UNION {[1..n -> values] : n \in 0..2}}

\* list arrays of at most two rows of at most one item: the offsets need not
\* start at 0 and the child array may go on after the last offset, as in the
\* arrays of a column whose chunks share one child array
ListArrays ==
    {ArrowArray([k \in 1..(first + Cardinality({j \in DOMAIN sizes : sizes[j] = 1}) + rest)
                    |-> 0],
                [k \in 1..(Len(sizes) + 1) |->
                    first + Cardinality({j \in 1..(k - 1) : sizes[j] = 1})]) :
        first \in {0, 1}, rest \in {0, 1},
        sizes \in UNION {[1..n -> {0, 1}] : n \in 0..2}}

\* the types of the columns, with the arrays a column of the type is made of
PlainIds == {"INT32", "BOOL", "STRING", "TIMESTAMP", "LARGE_STRING"}

ColumnTypes ==
    {ArrowScalar(id) : id \in PlainIds \cup {"DATE32", "DATE64"}}
    \cup {ArrowStruct(<<ArrowField(<<"x">>, ArrowScalar("INT32"), FALSE),
                       ArrowField(<<"y">>, ArrowScalar("STRING"), TRUE)>>),
          ArrowDictionary("STRING", "INT8")}
    \cup {ArrowDecimal("DECIMAL128", p) : p \in 1..38}
    \cup {ArrowDecimal("DECIMAL256", p) : p \in 1..76}
    \cup {ArrowList(id) : id \in ListIds}

ArraysOfType(type) ==
    IF type.id \in ListIds THEN ListArrays
    ELSE IF type.id = "DATE32" THEN ArraysOf(DayValues)
    ELSE IF type.id = "DATE64" THEN ArraysOf(MilliValues)
    ELSE ArraysOf({0})

\* a chunked column named c
ArrowColumn(type, nullable, chunks) ==
    [field |-> ArrowField(<<"c">>, type, nullable), chunks |-> chunks]

NoArrowColumn == [field |-> ArrowField(<<>>, ArrowScalar("NA"), FALSE), chunks |-> <<>>]

\* a converted column: its rows (IColumn::size), the day numbers of a date
\* column, the offsets and the size of the nested column of an array or map
\* column, the width of a decimal column, the size of the null map (-1: none)
ColumnData(rows) ==
    [read |-> TRUE, ok |-> TRUE, error |-> "", column_name |-> <<>>, rows |-> rows,
     data |-> <<>>, offsets |-> <<>>, elements |-> 0, width |-> 0, null_map |-> -1]

ColumnError(error, column_name) ==
    [ColumnData(0) EXCEPT !.ok = FALSE, !.error = error, !.column_name = column_name]

NotRead == [ColumnData(0) EXCEPT !.read = FALSE, !.ok = FALSE]

\* variant: the last value of the array is left behind
AppendChunkShort(column_data, chunk) ==
    column_data \o SubSeq(chunk.values, 1, Len(chunk.values) - 1)

\* column_data.insert_assume_reserved(raw_data, raw_data + chunk->length()), and
\* the loops that emplace_back every value of the array
AppendChunk(column_data, chunk) == column_data \o chunk.values

\* readColumnWithNumericData and readColumnWithBooleanData: arrays of length 0
\* are passed over
RECURSIVE readColumnWithNumericData(_, _)
readColumnWithNumericData(chunks, column_data) ==
    IF chunks = <<>> THEN column_data
    ELSE IF Len(Head(chunks).values) = 0
    THEN readColumnWithNumericData(Tail(chunks), column_data)
    ELSE readColumnWithNumericData(Tail(chunks), AppendChunk(column_data, Head(chunks)))

\* readColumnWithStringData, readColumnWithTimestampData and
\* readColumnWithDecimalDataImpl: one entry per value of every array
RECURSIVE readColumnWithValues(_, _)
readColumnWithValues(chunks, column_data) ==
    IF chunks = <<>> THEN column_data
    ELSE readColumnWithValues(Tail(chunks), AppendChunk(column_data, Head(chunks)))

\* variant: the largest day number is refused as well
Date32OutOfRangeInclusive(day) == day >= DATE_LUT_MAX_EXTEND_DAY_NUM

\* unlikely(*p > DATE_LUT_MAX_EXTEND_DAY_NUM)
Date32OutOfRange(day) == day > DATE_LUT_MAX_EXTEND_DAY_NUM

\* readColumnWithDate32Data: every array is inserted whole and then scanned
RECURSIVE readColumnWithDate32Data(_, _, _)
readColumnWithDate32Data(chunks, column_data, column_name) ==
    IF chunks = <<>> THEN [ColumnData(Len(column_data)) EXCEPT !.data = column_data]
    ELSE IF \E k \in 1..Len(Head(chunks).values) : Date32OutOfRange(Head(chunks).values[k])
    THEN ColumnError("VALUE_IS_OUT_OF_RANGE_OF_DATA_TYPE", column_name)
    ELSE readColumnWithDate32Data(Tail(chunks), AppendChunk(column_data, Head(chunks)),
                                  column_name)

\* the quotient of a magnitude by a divisor below 2^15, limb by limb from the
\* most significant one; remainder is what the limbs before have left
RECURSIVE DivideLimbs(_, _, _)
DivideLimbs(limbs, divisor, remainder) ==
    IF limbs = <<>> THEN <<>>
    ELSE LET part == remainder * 65536 + Head(limbs)
         IN  <<part \div divisor>> \o DivideLimbs(Tail(limbs), divisor, part % divisor)

\* chunk.Value(value_i) / 1000 on Int64: the quotient is truncated toward zero
DivideInt64(value, divisor) ==
    Int64(value.negative, DivideLimbs(value.limbs, divisor, 0))

\* variant: a negative number of seconds is stored as zero
ToUInt32Clamped(value) ==
    IF value.negative THEN <<0, 0>> ELSE <<value.limbs[3], value.limbs[4]>>

\* static_cast<UInt32> of an Int64: the low 32 bits of its two's complement,
\* as two 16-bit limbs
ToUInt32(value) ==
    LET high == value.limbs[3]
        low == value.limbs[4]
    IN  IF ~value.negative THEN <<high, low>>
        ELSE IF low = 0 THEN <<(65536 - high) % 65536, 0>>
        ELSE <<65535 - high, 65536 - low>>

\* readColumnWithDate64Data: every value of every array is divided and
\* narrowed; nothing is tested
RECURSIVE readColumnWithDate64Data(_, _)
readColumnWithDate64Data(chunks, column_data) ==
    IF chunks = <<>> THEN [ColumnData(Len(column_data)) EXCEPT !.data = column_data]
    ELSE readColumnWithDate64Data(Tail(chunks),
             column_data \o [value_i \in 1..Len(Head(chunks).values) |->
                                ToUInt32(DivideInt64(Head(chunks).values[value_i], 1000))])

\* variant: a precision equal to a width's largest one goes to the next width
DecimalWidthStrict(precision) ==
    IF precision < max_precision(32) THEN 32
    ELSE IF precision < max_precision(64) THEN 64
    ELSE IF precision < max_precision(128) THEN 128
    ELSE 256

\* readColumnWithDecimalData: the width of the values the column is read into
DecimalWidth(precision) ==
    IF precision <= max_precision(32) THEN 32
    ELSE IF precision <= max_precision(64) THEN 64
    ELSE IF precision <= max_precision(128) THEN 128
    ELSE 256

\* readByteMapFromArrowColumn: one byte per row of every array
RECURSIVE readByteMapFromArrowColumn(_, _, _)
readByteMapFromArrowColumn(type, chunks, bytemap_data) ==
    IF chunks = <<>> THEN bytemap_data
    ELSE readByteMapFromArrowColumn(type, Tail(chunks),
             bytemap_data \o [k \in 1..ArrayLength(type, Head(chunks)) |-> 0])

\* offsets_data.back(): on the empty array it reads the zero that the padding
\* in front of a PaddedPODArray holds
Back(offsets_data) ==
    IF offsets_data = <<>> THEN 0 ELSE offsets_data[Len(offsets_data)]

\* readOffsetsFromArrowListColumn: the entries 1.. of every offsets array are
\* added to the last offset written before the array
RECURSIVE readOffsetsFromArrowListColumn(_, _)
readOffsetsFromArrowListColumn(chunks, offsets_data) ==
    IF chunks = <<>> THEN offsets_data
    ELSE LET arrow_offsets == Head(chunks).offsets
             start == Back(offsets_data)
         IN  readOffsetsFromArrowListColumn(Tail(chunks),
                 offsets_data \o [i \in 1..(Len(arrow_offsets) - 1) |->
                                     start + arrow_offsets[i + 1]])

\* getNestedArrowColumn: list_chunk.values() of every array, whole
getNestedArrowColumn(chunks) ==
    [chunk_i \in 1..Len(chunks) |-> ArrowArray(chunks[chunk_i].values, <<>>)]

\* readColumnFromArrowColumn on the values: the nullable wrapper, then the
\* switch over the type
RECURSIVE ReadColumnData(_, _)
ReadColumnData(arrow_field, chunks) ==
    LET type == arrow_field.type
        id == type.id
        column_name == arrow_field.name
    IN  IF arrow_field.nullable
        THEN LET nested_column ==
                     ReadColumnData([arrow_field EXCEPT !.nullable = FALSE], chunks)
             IN  IF ~nested_column.ok THEN nested_column
                 ELSE [nested_column EXCEPT
                          !.null_map = Len(readByteMapFromArrowColumn(type, chunks, <<>>))]
        ELSE IF id \in {"STRING", "BINARY", "TIMESTAMP"}
        THEN ColumnData(Len(readColumnWithValues(chunks, <<>>)))
        ELSE IF id \in {"BOOL", "INT32"}
        THEN ColumnData(Len(readColumnWithNumericData(chunks, <<>>)))
        ELSE IF id = "DATE32"
        THEN readColumnWithDate32Data(chunks, <<>>, column_name)
        ELSE IF id = "DATE64"
        THEN readColumnWithDate64Data(chunks, <<>>)
        ELSE IF id \in {"DECIMAL128", "DECIMAL256"}
        THEN [ColumnData(Len(readColumnWithValues(chunks, <<>>))) EXCEPT
                 !.width = DecimalWidth(type.precision)]
        ELSE IF id \in ListIds
        THEN LET nested_column ==
                     ReadColumnData(type.children[1], getNestedArrowColumn(chunks))
                 offsets_column == readOffsetsFromArrowListColumn(chunks, <<>>)
             IN  IF ~nested_column.ok THEN nested_column
                 ELSE [ColumnData(Len(offsets_column)) EXCEPT
                          !.offsets = offsets_column, !.elements = nested_column.rows]
        ELSE IF id = "STRUCT"
        THEN LET elements == [i \in 1..Len(type.children) |->
                                 ReadColumnData(type.children[i], chunks)]
             IN  IF \E i \in 1..Len(elements) : ~elements[i].ok
                 THEN elements[CHOOSE i \in 1..Len(elements) :
                                  /\ ~elements[i].ok
                                  /\ \A j \in 1..(i - 1) : elements[j].ok]
                 ELSE ColumnData(elements[1].rows)
        ELSE IF id = "DICTIONARY"
        THEN IF type.index \notin IndexTypes
             THEN ColumnError("BAD_ARGUMENTS", column_name)
             ELSE ColumnData(Len(readColumnWithNumericData(chunks, <<>>)))
        ELSE ColumnError("UNKNOWN_TYPE", column_name)

\* the columns: of every type, nullable or not, of one to MaxChunks arrays
ColumnInit ==
    /\ \E type \in ColumnTypes, nullable \in BOOLEAN, n \in 1..MaxChunks :
          \E chunks \in [1..n -> ArraysOfType(type)] :
              chunked_array = ArrowColumn(type, nullable, chunks)
    /\ ch_column = NotRead

\* one call of readColumnFromArrowColumn on the column
ReadColumnFromArrowColumn ==
    /\ ~ch_column.read
    /\ ch_column' = ReadColumnData(chunked_array.field, chunked_array.chunks)
    /\ UNCHANGED <<chunked_array, readerVars, convVars, schemaVars, loopVars>>

ColumnIdle ==
    /\ chunked_array = NoArrowColumn
    /\ ch_column = NotRead

(* ---------------------------------------------------------------------- *)
(* Dry run: arrowSchemaToCHHeader and getMissingColumns                    *)
(* ---------------------------------------------------------------------- *)

\* arrow::Field::WithNullable on the field of a column
WithNullable(column, nullable) == [column EXCEPT !.field.nullable = nullable]

\* schemas: the fields of the tables of the model, by name, as they are and
\* with every field declared nullable or declared non-nullable
Schemas ==
    NameToColumnPtrs
    \cup {[n \in DOMAIN m |-> WithNullable(m[n], nullable)] :
              m \in NameToColumnPtrs, nullable \in BOOLEAN}

NotDerived == [called |-> FALSE, ok |-> FALSE, error |-> "", columns |-> <<>>]

NotAsked == [called |-> FALSE, ok |-> FALSE, error |-> "", indices |-> {}]

\* one iteration of arrowSchemaToCHHeader: an array built empty for the
\* field's type is converted, with a dictionary cache of its own
SampleColumn(field) ==
    readColumnFromArrowColumn(field, 0, 0, <<>>, FALSE)

\* arrowSchemaToCHHeader: the sample columns by name, or the error of the
\* field that does not convert
arrowSchemaToCHHeader(fields) ==
    LET failing == {n \in DOMAIN fields : ~SampleColumn(fields[n].field).ok}
    IN  IF failing # {}
        THEN [called |-> TRUE, ok |-> FALSE,
              error |-> SampleColumn(fields[CHOOSE n \in failing : TRUE].field).error,
              columns |-> <<>>]
        ELSE [called |-> TRUE, ok |-> TRUE, error |-> "",
              columns |-> [n \in DOMAIN fields |-> SampleColumn(fields[n].field).column]]

\* read_from_nested in getMissingColumns
ReadFromNested(block, name) ==
    /\ import_nested
    /\ ExtractTableName(name) \in DOMAIN block
    /\ ExtractColumn(block[ExtractTableName(name)], name) # NoColumn

\* getMissingColumns: the positions of the header columns that the schema
\* has neither by name nor as a leaf of a nested table
getMissingColumns(fields) ==
    LET derived == arrowSchemaToCHHeader(fields)
        absent == {i \in 1..Len(session_header) :
                      /\ session_header[i].name \notin DOMAIN derived.columns
                      /\ ~ReadFromNested(derived.columns, session_header[i].name)}
    IN  IF ~derived.ok
        THEN [called |-> TRUE, ok |-> FALSE, error |-> derived.error, indices |-> {}]
        ELSE IF absent # {} /\ ~allow_missing_columns
        THEN [called |-> TRUE, ok |-> FALSE, error |-> "THERE_IS_NO_COLUMN",
              indices |-> {}]
        ELSE [called |-> TRUE, ok |-> TRUE, error |-> "", indices |-> absent]

\* the session of a dry run, and the schema of the file it is asked about
SchemaInit ==
    /\ schema \in Schemas
    /\ block_from_arrow = NotDerived
    /\ missing_columns = NotAsked

ArrowSchemaToCHHeader ==
    /\ block_from_arrow' = arrowSchemaToCHHeader(schema)
    /\ UNCHANGED <<schema, missing_columns, readerVars, convVars, columnVars, loopVars>>

\* getMissingColumns is const: the session is left as it was
GetMissingColumns ==
    /\ missing_columns' = getMissingColumns(schema)
    /\ UNCHANGED <<schema, block_from_arrow, readerVars, convVars, columnVars, loopVars>>

SchemaIdle ==
    /\ schema = <<>>
    /\ block_from_arrow = NotDerived
    /\ missing_columns = NotAsked

(* ---------------------------------------------------------------------- *)
(* Shuffle reader: read() statement by statement                           *)
(* ---------------------------------------------------------------------- *)

\* the most blocks that the vector of one call is followed to
MaxBlocks == MaxLen + 2

\* the block that a decoder without end yields at every read
EndlessBlock ==
    [rows |-> 5, bytes |-> 10, columns |-> 1,
     info |-> [is_overflows |-> FALSE, bucket_num |-> 0], id |-> 0]

\* decoders that yield blocks with rows, all of the size of that block and
\* of any identity, and then report end-of-stream
FiniteStreams ==
    {strm \in Streams :
        \A i \in 1..Len(strm) : /\ ~strm[i].throws
                                 /\ strm[i].block.rows = EndlessBlock.rows}

\* auto block = input_stream->read()
NextBlock == IF endless THEN EndlessBlock ELSE DecoderRead(input_stream).block

\* variant: a block without rows is taken like any other block
EndOfStreamIgnored(block) == FALSE

\* if (!block.rows()) break
EndOfStream(block) == block.rows = 0

\* the test that moves a block to pending_block
Boundary(block) == loop_blocks # <<>> /\ IdentityDiffers(loop_blocks[1], block)

LoopInit ==
    /\ \/ endless = FALSE /\ input_stream \in FiniteStreams
       \/ endless = TRUE /\ input_stream = <<>>
    /\ pending_block = EmptyBlock
    /\ max_shuffle_read_rows \in RowThresholds
    /\ max_shuffle_read_bytes \in ByteThresholds
    /\ current_block = NoChunk
    /\ header = 0
    /\ last = NoCall
    /\ origin = input_stream
    /\ returned = <<>>
    /\ pc = "idle"
    /\ loop_blocks = <<>>

\* read() is called: the pending block is moved into the vector
Enter ==
    /\ pc = "idle"
    /\ endless => Len(returned) < MaxBlocks
    /\ pc' = "while"
    /\ loop_blocks' = SeedBlocks(pending_block)
    /\ pending_block' = EmptyBlock
    /\ UNCHANGED <<input_stream, max_shuffle_read_rows, max_shuffle_read_bytes,
                   current_block, header, last, origin, returned, endless>>
    /\ UNCHANGED <<convVars, columnVars, schemaVars>>

\* an iteration that reaches the end of the loop body
Iterate ==
    /\ pc = "while"
    /\ LoopCondition(SumRows(loop_blocks), SumBytes(loop_blocks))
    /\ Len(loop_blocks) < MaxBlocks
    /\ ~EndOfStream(NextBlock)
    /\ ~Boundary(NextBlock)
    /\ loop_blocks' = Append(loop_blocks, NextBlock)
    /\ input_stream' = DecoderAdvance(input_stream)
    /\ UNCHANGED <<pc, pending_block, max_shuffle_read_rows, max_shuffle_read_bytes,
                   current_block, header, last, origin, returned, endless>>
    /\ UNCHANGED <<convVars, columnVars, schemaVars>>

\* an iteration that leaves the loop by one of its two break statements
Break ==
    /\ pc = "while"
    /\ LoopCondition(SumRows(loop_blocks), SumBytes(loop_blocks))
    /\ EndOfStream(NextBlock) \/ Boundary(NextBlock)
    /\ pending_block' = IF EndOfStream(NextBlock) THEN pending_block ELSE NextBlock
    /\ input_stream' = DecoderAdvance(input_stream)
    /\ pc' = "after"
    /\ UNCHANGED <<loop_blocks, max_shuffle_read_rows, max_shuffle_read_bytes,
                   current_block, header, last, origin, returned, endless>>
    /\ UNCHANGED <<convVars, columnVars, schemaVars>>

\* the loop condition is false
Exit ==
    /\ pc = "while"
    /\ ~LoopCondition(SumRows(loop_blocks), SumBytes(loop_blocks))
    /\ pc' = "after"
    /\ UNCHANGED <<loop_blocks, input_stream, pending_block, max_shuffle_read_rows,
                   max_shuffle_read_bytes, current_block, header, last, origin,
                   returned, endless>>
    /\ UNCHANGED <<convVars, columnVars, schemaVars>>

\* the statements after the loop, up to the return
Return ==
    /\ pc = "after"
    /\ current_block' = FinalBlock(loop_blocks)
    /\ header' = AdoptHeader(header, FinalBlock(loop_blocks))
    /\ returned' = Record(returned, FinalBlock(loop_blocks))
    /\ loop_blocks' = <<>>
    /\ pc' = "idle"
    /\ UNCHANGED <<input_stream, pending_block, max_shuffle_read_rows,
                   max_shuffle_read_bytes, last, origin, endless>>
    /\ UNCHANGED <<convVars, columnVars, schemaVars>>

LoopIdle ==
    /\ pc = "idle"
    /\ loop_blocks = <<>>
    /\ endless = FALSE

\* the reader while the conversion session is exercised, and conversely
ReaderIdle ==
    /\ input_stream = <<>>
    /\ pending_block = EmptyBlock
    /\ max_shuffle_read_rows = -1
    /\ max_shuffle_read_bytes = -1
    /\ current_block = NoChunk
    /\ header = 0
    /\ last = NoCall
    /\ origin = <<>>
    /\ returned = <<>>

ConvIdle ==
    /\ session_header = <<>>
    /\ import_nested = FALSE
    /\ allow_missing_columns = FALSE
    /\ dictionary_values = <<>>
    /\ res = EmptyChunk
    /\ conv_last = NoConversion

Init == ReaderInit /\ ConvIdle /\ ColumnIdle /\ SchemaIdle /\ LoopIdle

Next ==
    \/ ReadReturns
    \/ ReadThrows

\* the shuffle reader
Spec == Init /\ [][Next]_vars

InitConv == ConvInit /\ ReaderIdle /\ ColumnIdle /\ SchemaIdle /\ LoopIdle

NextConv == \/ ArrowColumnsToCHChunk
            \/ ArrowTableToCHChunk

\* the conversion session
SpecConv == InitConv /\ [][NextConv]_vars

InitColumn == ColumnInit /\ ReaderIdle /\ ConvIdle /\ SchemaIdle /\ LoopIdle

NextColumn == ReadColumnFromArrowColumn

SpecColumn == InitColumn /\ [][NextColumn]_vars

InitSchema == ConvInit /\ SchemaInit /\ ReaderIdle /\ ColumnIdle /\ LoopIdle

NextSchema == \/ ArrowSchemaToCHHeader
              \/ GetMissingColumns

\* the dry run of a session against a schema
SpecSchema == InitSchema /\ [][NextSchema]_vars

InitLoop == LoopInit /\ ConvIdle /\ ColumnIdle /\ SchemaIdle

NextLoop ==
    \/ Enter
    \/ Iterate
    \/ Break
    \/ Exit
    \/ Return

\* read() statement by statement: a call that has begun goes on, and the
\* caller goes on calling
SpecLoop == InitLoop /\ [][NextLoop]_vars /\ WF_vars(NextLoop)

(* ---------------------------------------------------------------------- *)
(* Shuffle reader: properties                                              *)
(* ---------------------------------------------------------------------- *)

\* the last read() call returned a chunk
OkCall == last.called /\ ~last.threw

RowsOf(hist) == [i \in 1..Len(hist) |-> hist[i].rows]

Parts == current_block.parts

\* rows / bytes accumulated when the first k blocks of the chunk were in the vector
PrefixRows(k) == SumRows(SubSeq(Parts, 1, k))
PrefixBytes(k) == SumBytes(SubSeq(Parts, 1, k))

\* C1: every block merged into a returned chunk has the same
\* (is_overflows, bucket_num) identity, and the chunk carries that identity
\* (the tags of its first block).
C1_ChunkHasOneIdentity ==
    /\ \A i \in 1..Len(Parts) : Parts[i].info = current_block.info
    /\ \A c \in 1..Len(returned) :
          \A i \in 1..Len(returned[c].parts) :
              returned[c].parts[i].info = returned[c].parts[1].info
    /\ current_block.rows = SumRows(Parts)

\* a merged chunk was cut at a block that differs in the overflow flag only
C1_Witness ==
    /\ OkCall
    /\ Len(Parts) >= 2
    /\ BlockBool(pending_block)
    /\ pending_block.info.bucket_num = current_block.info.bucket_num
    /\ pending_block.info.is_overflows # current_block.info.is_overflows

\* the stream [(bucket 0, 5 rows), (bucket 0, 5 rows), (bucket 1, 5 rows)], then end-of-stream
C2_Input ==
    /\ Len(origin) = 3
    /\ \A i \in 1..3 : /\ ~origin[i].throws
                       /\ origin[i].block.rows = 5
                       /\ ~origin[i].block.info.is_overflows
    /\ origin[1].block.info.bucket_num = 0
    /\ origin[2].block.info.bucket_num = 0
    /\ origin[3].block.info.bucket_num = 1
    /\ max_shuffle_read_rows = 100
    /\ \/ max_shuffle_read_bytes < 0
       \/ max_shuffle_read_bytes > origin[1].block.bytes + origin[2].block.bytes

\* C2: on the stream [(bucket 0, 5 rows), (bucket 0, 5 rows), (bucket 1, 5 rows)]
\* with max_rows = 100 and the byte threshold not reached, the successive
\* read() calls return a chunk of 10 rows, a chunk of 5 rows, then only empty chunks.
C2_TwoChunksTenThenFive ==
    C2_Input =>
        /\ RowsOf(returned) \in {<<>>, <<10>>, <<10, 5>>, <<10, 5, 0>>}
        /\ last.called => returned # <<>>
        /\ Len(returned) >= 1 => Len(returned[1].parts) = 2
        /\ Len(returned) >= 2 => Len(returned[2].parts) = 1

C2_Witness == C2_Input /\ RowsOf(returned) = <<10, 5, 0>>

\* C3: with an enabled row threshold no block is read once the accumulated rows
\* are >= max_rows, every chunk is made of whole decoded blocks, and with
\* max_rows = 8 and same-identity blocks of 5 rows the first chunk is exactly
\* 2 blocks (10 rows).
C3_RowThresholdStops ==
    /\ (OkCall /\ max_shuffle_read_rows >= 0 /\ current_block.rows > 0
            /\ current_block.rows >= max_shuffle_read_rows)
        => /\ ~BlockBool(pending_block)
           /\ ~last.eos
           /\ Len(Parts) = Len(SeedBlocks(last.seeded)) + Len(last.got)
    /\ \A i \in 1..Len(Parts) :
           /\ Parts[i].id \in 1..Len(origin)
           /\ Parts[i] = origin[Parts[i].id].block
    /\ (/\ max_shuffle_read_rows = 8
        /\ Len(origin) >= 2
        /\ \A i \in 1..2 : ~origin[i].throws /\ origin[i].block.rows = 5
        /\ origin[1].block.info = origin[2].block.info
        /\ \/ max_shuffle_read_bytes < 0
           \/ max_shuffle_read_bytes > origin[1].block.bytes
        /\ returned # <<>>)
        => /\ returned[1].rows = 10
           /\ returned[1].parts = <<origin[1].block, origin[2].block>>

\* a chunk that met the row threshold exactly with its second block
C3_Witness ==
    /\ OkCall
    /\ max_shuffle_read_rows = 8
    /\ Len(Parts) = 2
    /\ current_block.rows = 8
    /\ input_stream # <<>>

\* every outcome the decoder will still produce is an end-of-stream report
KeepsReportingEos(strm) ==
    \A i \in 1..Len(strm) : ~strm[i].throws /\ strm[i].block.rows = 0

\* C4: once a read() call has seen the decoder report end-of-stream and ended
\* with no pending block, every later read() returns an empty chunk as long as
\* the decoder keeps reporting end-of-stream.
C4_EmptyAfterEndOfStream ==
    [][(OkCall /\ last.eos /\ ~BlockBool(pending_block)
            /\ KeepsReportingEos(input_stream))
        => (/\ OkCall'
            /\ current_block'.rows = 0
            /\ current_block'.parts = <<>>
            /\ last'.eos
            /\ ~BlockBool(pending_block'))]_vars

\* an empty chunk returned by a call made after end-of-stream was reported,
\* after a non-empty chunk had been returned
C4_Witness ==
    /\ OkCall
    /\ last.after_eos
    /\ current_block.rows = 0
    /\ \E c \in 1..Len(returned) : returned[c].rows > 0

\* C5: the chunk returned by read() is empty if and only if the call started
\* with no pending block and the first block it got from the decoder was the
\* zero-row end-of-stream block.
C5_EmptyOnlyAtEndOfStream ==
    OkCall =>
        /\ current_block.rows = 0
             <=> (/\ ~BlockBool(last.seeded)
                  /\ last.got # <<>>
                  /\ last.got[1].block.rows = 0)
        /\ BlockBool(last.seeded) => current_block.rows > 0

\* a call that started with a pending block and met end-of-stream at once
C5_Witness ==
    /\ OkCall
    /\ BlockBool(last.seeded)
    /\ Len(last.got) = 1
    /\ last.eos
    /\ current_block.rows > 0

\* an enabled threshold that the returned chunk has reached
RowsReached(rows) == max_shuffle_read_rows >= 0 /\ rows >= max_shuffle_read_rows
BytesReached(bytes) == max_shuffle_read_bytes >= 0 /\ bytes >= max_shuffle_read_bytes

\* C6: a call ends only on end-of-stream, on a block of another identity, or
\* on an enabled threshold that has been reached: a negative threshold never
\* ends it.
C6_DisabledNeverStops ==
    OkCall =>
        \/ last.eos
        \/ BlockBool(pending_block)
        \/ current_block.rows > 0 /\ RowsReached(current_block.rows)
        \/ current_block.rows > 0 /\ BytesReached(current_block.bytes)

\* both thresholds disabled and three blocks merged up to end-of-stream
C6_Witness ==
    /\ OkCall
    /\ max_shuffle_read_rows < 0
    /\ max_shuffle_read_bytes < 0
    /\ Len(Parts) = 3
    /\ last.eos

\* the loop condition was true with the first k blocks of the chunk accumulated
ContinuedAt(k) ==
    \/ k < Len(Parts)
    \/ k = Len(Parts) /\ (last.eos \/ BlockBool(pending_block))

\* C7 as stated: the loop stops once a block is accumulated and a threshold is
\* disabled or reached.
C7_StopsWhenDisabledOrReached ==
    OkCall =>
        \A k \in 1..Len(Parts) :
            ContinuedAt(k) <=>
                ~(\/ max_shuffle_read_rows < 0
                  \/ max_shuffle_read_bytes < 0
                  \/ RowsReached(PrefixRows(k))
                  \/ BytesReached(PrefixBytes(k)))

\* C7 amended: the loop stops once a block is accumulated and an enabled
\* threshold has been reached.
C7_StopsWhenEnabledReached ==
    OkCall =>
        \A k \in 1..Len(Parts) :
            ContinuedAt(k) <=>
                ~(RowsReached(PrefixRows(k)) \/ BytesReached(PrefixBytes(k)))

\* the rows threshold is disabled and the byte threshold ended a two-block chunk
C7_Witness ==
    /\ OkCall
    /\ max_shuffle_read_rows < 0
    /\ max_shuffle_read_bytes >= 0
    /\ Len(Parts) = 2
    /\ ~ContinuedAt(2)
    /\ input_stream # <<>>

\* C8: a read() call in which the decoder throws exposes no chunk, and the
\* block that was pending when the call began is still held for a later call.
C8_PendingSurvivesFailure ==
    [][last'.threw =>
          /\ current_block' = current_block
          /\ BlockBool(pending_block) => pending_block' = pending_block]_vars

\* C9: after a return of read() a pending block is the last block read from the
\* decoder in that call, its identity differs from the returned chunk's, and it
\* is the first block of the chunk the next call returns.
C9_PendingIsLookAhead ==
    OkCall =>
        /\ BlockBool(pending_block) =>
              /\ last.got # <<>>
              /\ pending_block = last.got[Len(last.got)].block
              /\ current_block.rows > 0
              /\ pending_block.info # current_block.info
              /\ pending_block.rows > 0
        /\ BlockBool(last.seeded) => Parts # <<>> /\ Parts[1] = last.seeded

\* a pending block was delivered first and another block was held back
C9_Witness ==
    /\ OkCall
    /\ BlockBool(last.seeded)
    /\ Parts = <<last.seeded>>
    /\ BlockBool(pending_block)

\* the returned chunks that have rows, in order
RECURSIVE NonEmpty(_)
NonEmpty(hist) ==
    IF hist = <<>> THEN <<>>
    ELSE IF Head(hist).rows = 0 THEN NonEmpty(Tail(hist))
    ELSE <<Head(hist)>> \o NonEmpty(Tail(hist))

\* C23: the declared layout is unset as long as read() has returned only
\* empty chunks; from the first non-empty chunk on it is the layout of that
\* chunk, whatever the layouts of the chunks returned later.
C23_HeaderSetOnce ==
    header = IF NonEmpty(returned) = <<>> THEN 0
             ELSE NonEmpty(returned)[1].columns

\* a chunk of another layout was returned after the layout had been declared
C23_Witness ==
    /\ OkCall
    /\ Len(NonEmpty(returned)) >= 2
    /\ current_block.rows > 0
    /\ current_block.columns # NonEmpty(returned)[1].columns
    /\ header # 0

\* the decoder yields blocks with rows and then reports end-of-stream for good
CleanStream ==
    \A i \in 1..Len(origin) :
        /\ ~origin[i].throws
        /\ \A j \in 1..(i - 1) : origin[j].block.rows = 0 => origin[i].block.rows = 0

\* the blocks with rows that a stream yields, in decode order
RECURSIVE BlocksOf(_)
BlocksOf(strm) ==
    IF strm = <<>> THEN <<>>
    ELSE IF Head(strm).block.rows = 0 THEN BlocksOf(Tail(strm))
    ELSE <<Head(strm).block>> \o BlocksOf(Tail(strm))

\* the blocks of the chunks returned before the first empty chunk, in order
RECURSIVE Delivered(_)
Delivered(hist) ==
    IF hist = <<>> \/ Head(hist).rows = 0 THEN <<>>
    ELSE Head(hist).parts \o Delivered(Tail(hist))

\* C25: when the decoder yields blocks with rows and then end-of-stream, the
\* chunks returned up to the first empty one hold every decoded block exactly
\* once and in decode order, whatever the thresholds: at any time the blocks
\* delivered, the pending block and the blocks still to be decoded are the
\* decoder's blocks in order, every chunk has the rows of its blocks, and
\* once an empty chunk has been returned all the blocks have been delivered.
C25_BlocksConserved ==
    CleanStream =>
        /\ Delivered(returned) \o SeedBlocks(pending_block) \o BlocksOf(input_stream)
               = BlocksOf(origin)
        /\ \A c \in 1..Len(returned) : returned[c].rows = SumRows(returned[c].parts)
        /\ (\E c \in 1..Len(returned) : returned[c].rows = 0)
               => Delivered(returned) = BlocksOf(origin)

\* three blocks came out as a chunk of two blocks, a chunk made of the block
\* that had been pending, and the empty chunk
C25_Witness ==
    /\ CleanStream
    /\ Len(BlocksOf(origin)) = 3
    /\ Len(returned) = 3
    /\ Len(returned[1].parts) = 2
    /\ returned[2].parts = <<origin[3].block>>
    /\ returned[3].rows = 0

\* the ids of a sequence of blocks
Ids(seq) == {seq[i].id : i \in 1..Len(seq)}

\* both thresholds are disabled
Unlimited == max_shuffle_read_rows < 0 /\ max_shuffle_read_bytes < 0

\* C26: for a decoder that yields N blocks with rows and then end-of-stream,
\* every read() call that has begun returns; a call that returns a chunk with
\* rows returns at least one block, and only blocks that no chunk before has
\* held, so that at most N chunks with rows are returned and then an empty
\* one; with both thresholds disabled and a decoder that yields blocks of
\* one identity without end, a call that has begun never returns.
C26_Termination ==
    /\ (~endless /\ pc # "idle") ~> (pc = "idle")
    /\ [][(~endless /\ pc = "after" /\ pc' = "idle" /\ current_block'.rows > 0) =>
              /\ current_block'.parts # <<>>
              /\ Ids(current_block'.parts) \cap Ids(Delivered(returned)) = {}]_vars
    /\ [](~endless => Len(NonEmpty(returned)) <= Len(origin))
    /\ ~endless ~> (\E c \in 1..Len(returned) : returned[c].rows = 0)
    /\ [][(endless /\ Unlimited /\ pc = "while") => pc' = "while"]_vars

\* the empty chunk was returned after as many chunks with rows as the decoder
\* had blocks
C26_Witness ==
    /\ ~endless
    /\ pc = "idle"
    /\ Len(origin) = 3
    /\ Len(NonEmpty(returned)) = 3
    /\ returned[Len(returned)].rows = 0

\* a call on a decoder without end, with both thresholds disabled, that has
\* been followed as far as calls are followed
C26_WitnessEndless ==
    /\ endless
    /\ Unlimited
    /\ pc = "while"
    /\ Len(loop_blocks) = MaxBlocks

\* C27: the thresholds are tested before each decoder read, so a chunk goes
\* beyond a threshold by less than one block: in a chunk of k >= 2 blocks the
\* first k-1 blocks have fewer than max_rows rows (when max_rows >= 0) and
\* fewer than max_bytes bytes (when max_bytes >= 0); and a call that starts
\* with a pending block at or above an enabled threshold returns that block
\* alone and does not read the decoder.
C27_OvershootBelowOneBlock ==
    OkCall =>
        /\ Len(Parts) >= 2 =>
              /\ max_shuffle_read_rows >= 0
                    => PrefixRows(Len(Parts) - 1) < max_shuffle_read_rows
              /\ max_shuffle_read_bytes >= 0
                    => PrefixBytes(Len(Parts) - 1) < max_shuffle_read_bytes
        /\ (/\ BlockBool(last.seeded)
            /\ \/ RowsReached(last.seeded.rows)
               \/ BytesReached(last.seeded.bytes))
              => /\ Parts = <<last.seeded>>
                 /\ last.got = <<>>
                 /\ ~BlockBool(pending_block)

\* a chunk of two blocks, with both thresholds enabled, that went beyond the
\* byte threshold with its second block
C27_Witness ==
    /\ OkCall
    /\ Len(Parts) = 2
    /\ max_shuffle_read_rows > 0
    /\ max_shuffle_read_bytes > 0
    /\ current_block.bytes > max_shuffle_read_bytes

\* a pending block beyond the byte threshold was returned alone while the
\* decoder had more blocks
C27_WitnessPending ==
    /\ OkCall
    /\ BlockBool(last.seeded)
    /\ BytesReached(last.seeded.bytes)
    /\ last.seeded.bytes > max_shuffle_read_bytes
    /\ max_shuffle_read_bytes > 0
    /\ Parts = <<last.seeded>>
    /\ input_stream # <<>>

(* ---------------------------------------------------------------------- *)
(* Conversion session: properties                                          *)
(* ---------------------------------------------------------------------- *)

\* the last arrowColumnsToCHChunk call returned
ConvOk == conv_last.called /\ conv_last.ran /\ conv_last.ok

\* C10: when arrowColumnsToCHChunk returns, the chunk has exactly one column
\* per header column, in the header's order, each of the header's declared
\* type, whatever external columns were supplied.
C10_ChunkMatchesHeader ==
    ConvOk =>
        /\ Len(res.columns) = Len(session_header)
        /\ \A i \in 1..Len(session_header) :
              /\ res.columns[i].name = session_header[i].name
              /\ res.columns[i].type = session_header[i].type

\* a two-column batch built from a table with a column nobody asked for: one
\* column came through a cast from another type, the other by another route
C10_Witness ==
    /\ ConvOk
    /\ conv_last.unused
    /\ Len(res.columns) = 2
    /\ \E i, j \in 1..2 :
          /\ res.columns[i].route = "exact"
          /\ res.columns[i].from # res.columns[i].type
          /\ res.columns[j].route \in {"nested", "default"}

\* the header column at position i finds neither a column of its name nor, with
\* import_nested, a struct child of its name in the column named as its prefix
Missing(i) ==
    /\ ~conv_last.offer[i].exact
    /\ ~(import_nested /\ conv_last.offer[i].leaf)

\* C11: a header column resolved neither by exact name nor by nested extraction
\* makes a strict call (allow_missing_columns = false) fail with the
\* missing-column error at that column, unless an earlier column has already
\* failed the call; a lenient call does not fail at that column and, when it
\* returns, holds for it a default column of the header's type with as many
\* rows as the batch.
C11_MissingColumnPolicy ==
    (conv_last.called /\ conv_last.ran) =>
        \A i \in 1..Len(session_header) :
            Missing(i) =>
                IF allow_missing_columns
                THEN /\ ~(~conv_last.ok /\ conv_last.at = i)
                     /\ ConvOk =>
                            /\ res.columns[i].route = "default"
                            /\ res.columns[i].type = session_header[i].type
                            /\ res.columns[i].rows = res.num_rows
                ELSE /\ ~conv_last.ok
                     /\ conv_last.at <= i
                     /\ conv_last.at = i => conv_last.error = "THERE_IS_NO_COLUMN"

\* a lenient two-row batch with a default column for a header column whose
\* table prefix was supplied but holds no child of its name
C11_Witness ==
    /\ ConvOk
    /\ allow_missing_columns
    /\ res.num_rows = 2
    /\ \E i \in 1..Len(session_header) :
          /\ Missing(i)
          /\ conv_last.offer[i].table
          /\ res.columns[i].route = "default"

\* C12: a column of exactly the header column's name is always the one used;
\* the nested table is consulted only without exact match, with import_nested
\* set and with the table prefix among the supplied columns; and whenever it
\* is not consulted or yields no child, the missing-column policy decides: a
\* default column when the call returns, the missing-column error otherwise.
C12_ResolutionOrder ==
    /\ ConvOk =>
          \A i \in 1..Len(session_header) :
              LET offer == conv_last.offer[i]
                  column == res.columns[i]
              IN  /\ offer.exact => column.route = "exact" /\ ~column.tried
                  /\ column.tried <=> (~offer.exact /\ import_nested /\ offer.table)
                  /\ column.route = "nested" <=> (column.tried /\ offer.leaf)
                  /\ (~offer.exact /\ (~column.tried \/ ~offer.leaf)) =>
                         (column.route = "default" /\ allow_missing_columns)
    /\ (conv_last.called /\ conv_last.error = "THERE_IS_NO_COLUMN") =>
          /\ ~allow_missing_columns
          /\ Missing(conv_last.at)

\* a batch where a header column has both a column of its full name and a
\* nested table holding a child of its name, and nested import is on
C12_Witness ==
    /\ ConvOk
    /\ import_nested
    /\ \E i \in 1..Len(session_header) :
          /\ conv_last.offer[i].exact
          /\ conv_last.offer[i].leaf
          /\ res.columns[i].route = "exact"

\* the result columns of the last call that were read from a dictionary column
DictionaryColumns ==
    {i \in 1..Len(res.columns) : ConvOk /\ res.columns[i].brought # 0}

\* C13: within one session the dictionary of a column name is materialized at
\* most once: the conversion that completes the build stores the dictionary of
\* the column it was given, and from then on the entry never changes and
\* every converted column of that name carries the cached dictionary,
\* whatever dictionary the later columns bring.
C13_DictionaryBuiltOnce ==
    [][\A n \in DOMAIN dictionary_values' :
          LET old == DictEntry(dictionary_values, n)
              new == dictionary_values'[n]
          IN  /\ new.builds <= 1
              /\ old.built => new = old
              /\ (conv_last'.ran /\ conv_last'.ok) =>
                    \A i \in 1..Len(res'.columns) :
                        (res'.columns[i].name = n /\ res'.columns[i].brought # 0) =>
                            /\ new.built
                            /\ res'.columns[i].dict = new.payload
                            /\ ~old.built => new.payload = res'.columns[i].brought]_vars

\* a batch whose dictionary column brought dictionary 2 and was converted with
\* the dictionary 1 cached by an earlier call
C13_Witness ==
    \E i \in DictionaryColumns :
        /\ res.columns[i].dict = 1
        /\ res.columns[i].brought = 2
        /\ dictionary_values[res.columns[i].name].builds = 1

\* C14: a dictionary build that throws, in the conversion of the dictionary's
\* values or in the uniquing step, leaves the name without a dictionary; no
\* entry is ever visible half-built, and the next conversion of the name that
\* gets through builds the dictionary from the column it is given.
C14_FailedBuildLeavesNoEntry ==
    [][\A n \in DOMAIN dictionary_values' :
          LET old == DictEntry(dictionary_values, n)
              new == dictionary_values'[n]
          IN  /\ (new.failed /\ ~old.failed) => ~new.built
              /\ new.built => (new.payload # 0 /\ new.type # ScalarType("Nothing"))
              /\ (old.failed /\ ~old.built /\ new.built) => new.builds = 1
              /\ (old.failed /\ ~old.built /\ conv_last'.ran /\ conv_last'.ok) =>
                    \A i \in 1..Len(res'.columns) :
                        (res'.columns[i].name = n /\ res'.columns[i].brought # 0) =>
                            /\ new.built
                            /\ new.payload = res'.columns[i].brought
                            /\ res'.columns[i].dict = res'.columns[i].brought]_vars

\* the dictionary of a name was built by a call that came after a failed build
\* of the same name, and a batch was converted with it
C14_Witness ==
    \E i \in DictionaryColumns :
        /\ dictionary_values[res.columns[i].name].failed
        /\ dictionary_values[res.columns[i].name].built
        /\ res.columns[i].dict = res.columns[i].brought

\* C15: a call in which a column throws, whatever the error and whichever the
\* header column, leaves the output chunk exactly as it was before the call.
C15_ErrorLeavesChunkUntouched ==
    [][(conv_last'.called /\ ~conv_last'.ok) => res' = res]_vars

\* a call that failed on a later header column, after it had converted an
\* earlier one, with a batch of an earlier call still in the chunk
C15_Witness ==
    /\ conv_last.called
    /\ ~conv_last.ok
    /\ conv_last.at > 1
    /\ Len(res.columns) = Len(session_header)

\* the claim as stated: zero external columns are an error at either entry point
C16_EmptyInputFailsEverywhere ==
    (conv_last.called /\ conv_last.empty # "") =>
        (~conv_last.ok /\ conv_last.error = "INCORRECT_NUMBER_OF_COLUMNS")

\* C16: arrowColumnsToCHChunk called with no external columns fails with
\* INCORRECT_NUMBER_OF_COLUMNS; arrowTableToCHChunk given a table without
\* columns does not call it, returns without error and leaves the output
\* chunk and the dictionary cache as they were.
C16_EmptyInputFailsInColumnsEntry ==
    [][(conv_last'.called /\ conv_last'.empty # "") =>
          /\ res' = res
          /\ dictionary_values' = dictionary_values
          /\ IF conv_last'.empty = "columns"
             THEN ~conv_last'.ok /\ conv_last'.error = "INCORRECT_NUMBER_OF_COLUMNS"
             ELSE conv_last'.ok /\ ~conv_last'.ran]_vars

\* a table without columns went through arrowTableToCHChunk while the chunk
\* held the batch of an earlier call
C16_Witness ==
    /\ conv_last.called
    /\ conv_last.empty = "table"
    /\ conv_last.ok
    /\ res.columns # <<>>

(* ---------------------------------------------------------------------- *)
(* Column converter: properties                                            *)
(* ---------------------------------------------------------------------- *)

\* the values of all arrays of a column, in order
RECURSIVE ValuesOf(_)
ValuesOf(chunks) ==
    IF chunks = <<>> THEN <<>> ELSE Head(chunks).values \o ValuesOf(Tail(chunks))

ColumnRead(ids) == ch_column.read /\ chunked_array.field.type.id \in ids

Narrowest(precision) ==
    CHOOSE width \in DecimalWidths :
        /\ max_precision(width) >= precision
        /\ \A other \in DecimalWidths :
              max_precision(other) >= precision => width <= other

\* C18: a decimal column of precision p is read into the narrowest of the
\* widths 32, 64, 128 and 256 bits whose largest precision (9, 18, 38, 76) is
\* at least p: 5 goes to 32, 10 to 64, 30 to 128 and 50 to 256 bits.
C18_DecimalWidth ==
    ColumnRead({"DECIMAL128", "DECIMAL256"}) =>
        LET precision == chunked_array.field.type.precision
        IN  /\ ch_column.ok
            /\ ch_column.width = Narrowest(precision)
            /\ precision = 5 => ch_column.width = 32
            /\ precision = 10 => ch_column.width = 64
            /\ precision = 30 => ch_column.width = 128
            /\ precision = 50 => ch_column.width = 256

\* a decimal column whose precision is the largest one of the 64-bit width
C18_Witness ==
    /\ ColumnRead({"DECIMAL128", "DECIMAL256"})
    /\ chunked_array.field.type.precision = 18
    /\ ch_column.width = 64

\* C19: the offsets column of a list or map column has one entry per row, does
\* not decrease, over the boundaries of the arrays either, and ends on the
\* size of the converted nested column.
C19_OffsetsMatchElements ==
    (ColumnRead(ListIds) /\ ch_column.ok) =>
        LET offsets == ch_column.offsets
        IN  /\ Len(offsets) = ChunkedLength(chunked_array.field.type, chunked_array.chunks)
            /\ \A i, j \in 1..Len(offsets) : i <= j => offsets[i] <= offsets[j]
            /\ offsets # <<>> => offsets[Len(offsets)] = ch_column.elements

SecondsModulo32(value) ==
    CASE value = Int64(FALSE, <<0, 0, 0, 1500>>) -> <<0, 1>>
      [] value = Int64(TRUE, <<0, 0, 0, 1500>>) -> <<65535, 65535>>
      [] value = Int64(FALSE, <<0, 999, 65535, 65535>>) -> <<65535, 65535>>
      [] value = Int64(FALSE, <<0, 1000, 0, 0>>) -> <<0, 0>>
      [] value = Int64(TRUE, <<32768, 0, 0, 0>>) -> <<23068, 44041>>

C21_HeaderIgnoresNullable ==
    (block_from_arrow.called /\ block_from_arrow.ok) =>
        \A n \in DOMAIN schema :
            block_from_arrow.columns[n].type
                = SampleColumn(WithNullable(schema[n], FALSE).field).column.type

\* the conversion of a table that has the schema's columns, through
\* arrowTableToCHChunk, when no cast fails
LiveConversion(num_rows) ==
    IF CallsConverter(schema) THEN Convert(schema, num_rows, FALSE)
    ELSE TableColumns([columns |-> schema, duplicated |-> FALSE])

\* the header positions that a conversion has filled with default values
DefaultFilled(r) == {i \in 1..Len(r.columns) : r.columns[i].route = "default"}

\* C22: getMissingColumns agrees with the live conversion of a table of the
\* same schema: under the lenient policy it returns exactly the header
\* positions that the conversion fills with defaults, under the strict policy
\* it fails exactly when the conversion fails with a missing-column error.
C22_DryRunMatchesLive ==
    missing_columns.called =>
        \A num_rows \in TableLengths :
            IF allow_missing_columns
            THEN /\ missing_columns.ok
                 /\ missing_columns.indices = DefaultFilled(LiveConversion(num_rows))
            ELSE ~missing_columns.ok
                     <=> (/\ ~LiveConversion(num_rows).ok
                          /\ LiveConversion(num_rows).error = "THERE_IS_NO_COLUMN")

====
